---------------------------- MODULE Spec2Model ----------------------------
(***************************************************************************)
(* Model of src/unix/process.c: uv_spawn / uv__chld (asynchronous spawn),  *)
(* uv_process_kill, and uv_spawn_sync / SyncCHLDHandler (blocking spawn),  *)
(* together with the part of the kernel they talk to: the parent's         *)
(* descriptor table, the process table, SIGCHLD and the clock.             *)
(***************************************************************************)
EXTENDS Integers, Sequences, FiniteSets, TLC

(***************************************************************************)
(* Bounds of the model.                                                    *)
(***************************************************************************)
MaxHandles == 1      \* uv_process_t handles the caller may spawn
MaxSync    == 1      \* uv_spawn_sync calls the caller may make
MaxPid     == 2      \* process identifiers the kernel hands out
MaxFds     == 8      \* descriptors the parent may have open besides 0..2
MaxTime    == 2      \* ticks of the wall clock
MaxOut     == 2      \* bytes a child writes to one captured stream
MaxCap     == 2      \* capacity of a capture buffer / of the stdin buffer
MaxTimeout == 2      \* requested timeout, in ticks

TickMs == 1000 \div 2   \* milliseconds in one tick of the wall clock

Handles == 1..MaxHandles
Pids    == 1..MaxPid
Fds     == 3..(2 + MaxFds)

(***************************************************************************)
(* Program constants.                                                      *)
(***************************************************************************)
SPAWN_WAIT_EXEC == 1
SIGKILL         == 9
SIGTERM         == 15
ExecFailed      == 127

StreamKinds == {"none", "UV_NAMED_PIPE", "UV_TCP"}
ExitCodes   == {0, ExecFailed}
Signals     == {SIGKILL, SIGTERM}
Captured    == {"stdout", "stderr"}

(***************************************************************************)
(* <sys/wait.h>: the wait status is an integer; the macros decode it.      *)
(***************************************************************************)
W_EXITCODE(c, s) == c * 256 + s
WTERMSIG(status)    == status % 128
WIFEXITED(status)   == WTERMSIG(status) = 0
WEXITSTATUS(status) == (status \div 256) % 256
WIFSIGNALED(status) == WTERMSIG(status) # 0 /\ WTERMSIG(status) # 127

VARIABLES
  pc,            \* where the (single-threaded) parent is
  ret,           \* value returned by the call that returned last
  err,           \* loop->last_err: code recorded by uv_err_new
  fdtab,         \* parent's descriptor table: Fds -> open file
  proc,          \* process table: Pids -> child
  sigchld,       \* SIGCHLD: [pending, handler]
  clock,         \* [now: wall clock, loop: the loop's cached time (uv_now)]
  process,       \* the uv_process_t handles
  cur,           \* uv_spawn: the handle and options of the call in progress
  stdin_pipe, stdout_pipe, stderr_pipe, signal_pipe, \* locals of the call
  pid,           \* uv_spawn: local pid
  sigchld_pipe,  \* the static int sigchld_pipe[2]
  spawn,         \* the uv_spawn_sync_t record
  sync,          \* uv_spawn_sync: locals of the loop
  pipes          \* contents of the pipes of the uv_spawn_sync call

vars == << pc, ret, err, fdtab, proc, sigchld, clock, process, cur,
           stdin_pipe, stdout_pipe, stderr_pipe, signal_pipe, pid,
           sigchld_pipe, spawn, sync, pipes >>

(***************************************************************************)
(* Descriptor table.  A file is one end of a pipe made by call number o.   *)
(***************************************************************************)
NoFile == [o |-> 0, k |-> "none", e |-> "-"]
File(o, k, e) == [o |-> o, k |-> k, e |-> e]
NoPipe == << -1, -1 >>

IsOpen(fd) == fd \in Fds /\ fdtab[fd] # NoFile
FreeFds(tab) == { fd \in Fds : tab[fd] = NoFile }
Lowest(S) == CHOOSE x \in S : \A y \in S : x <= y

\* pipe(2): the two lowest free descriptors, [0] the read end, [1] the write end
PipeFds(tab) ==
  LET r == Lowest(FreeFds(tab))
      w == Lowest(FreeFds(tab) \ {r})
  IN << r, w >>
CanPipe(tab) == Cardinality(FreeFds(tab)) >= 2
OpenPipe(tab, o, k) ==
  LET p == PipeFds(tab)
  IN [tab EXCEPT ![p[1]] = File(o, k, "r"), ![p[2]] = File(o, k, "w")]

\* close(2) / uv__close: EBADF on -1 or on a descriptor that is not open
Close(tab, fd) == IF fd \in Fds THEN [tab EXCEPT ![fd] = NoFile] ELSE tab
RECURSIVE CloseAll(_, _)
CloseAll(tab, fds) ==
  IF fds = << >> THEN tab ELSE CloseAll(Close(tab, Head(fds)), Tail(fds))

(***************************************************************************)
(* Process table.                                                          *)
(***************************************************************************)
NoProc == [st |-> "free", status |-> 0, call |-> 0]
Alive(p)  == p \in Pids /\ proc[p].st \in {"forked", "running"}
Zombie(p) == p \in Pids /\ proc[p].st = "zombie"
Exists(p) == Alive(p) \/ Zombie(p)
FreePids  == { p \in Pids : proc[p].st = "free" }
\* fork(2) hands out the lowest identifier that names no process: an
\* identifier is used again once its process has been reaped
NextPid   == IF FreePids = {} THEN 0 ELSE Lowest(FreePids)

\* a child dies: it becomes a zombie and the kernel raises SIGCHLD
Die(tab, p, status) == [tab EXCEPT ![p].st = "zombie", ![p].status = status]

\* kill(2) with a fatal signal
Kill(tab, p, sig) ==
  IF p \in Pids /\ tab[p].st \in {"forked", "running"}
  THEN Die(tab, p, W_EXITCODE(0, sig)) ELSE tab

NoHandle == [state |-> "unused", pid_set |-> FALSE, pid |-> 0,
             exit_cb |-> FALSE, watcher |-> FALSE,
             cb_calls |-> 0, cb_exit_status |-> 0, cb_term_signal |-> 0,
             stdin_fd |-> -1, stdout_fd |-> -1, stderr_fd |-> -1]
NoCur == [h |-> 0, stdin_stream |-> "none", stdout_stream |-> "none",
          stderr_stream |-> "none"]


(***************************************************************************)
(* uv__chld: the termination reporter, run by the reactor's child watcher  *)
(* with the wait status in watcher->rstatus.                               *)
(***************************************************************************)
uv__chld(h, status) ==
  LET exit_status == IF WIFEXITED(status) THEN WEXITSTATUS(status) ELSE 0
      term_signal == IF WIFSIGNALED(status) THEN WTERMSIG(status) ELSE 0
  IN IF h.exit_cb
     THEN [h EXCEPT !.watcher = FALSE,
                    !.cb_calls = @ + 1,
                    !.cb_exit_status = exit_status,
                    !.cb_term_signal = term_signal]
     ELSE [h EXCEPT !.watcher = FALSE]

(***************************************************************************)
(* uv_spawn, lines 87-165: handle initialisation, the three stdio          *)
(* bindings in order (type check, then pipe()), then the synchronization   *)
(* pipe.  The first failure jumps to the error label.                      *)
(***************************************************************************)
SpawnStdio(prev, kind, k, o, fails) ==
  IF prev.e # "OK" THEN [prev EXCEPT !.p = NoPipe]
  ELSE IF kind = "none" THEN [prev EXCEPT !.p = NoPipe]
  ELSE IF kind # "UV_NAMED_PIPE" THEN [prev EXCEPT !.p = NoPipe, !.e = "EINVAL"]
  ELSE IF fails \/ ~CanPipe(prev.tab) THEN [prev EXCEPT !.p = NoPipe, !.e = "EMFILE"]
  ELSE [tab |-> OpenPipe(prev.tab, o, k), p |-> PipeFds(prev.tab), e |-> "OK"]

SpawnSignalPipe(prev, o, fails) ==
  IF SPAWN_WAIT_EXEC = 1
  THEN SpawnStdio(prev, "UV_NAMED_PIPE", "signal", o, fails)
  ELSE [prev EXCEPT !.p = NoPipe]

uv_spawn_begin(h, options, failAt) ==
  /\ pc = "idle"
  /\ process[h].state = "unused"
  /\ LET o  == h
         s0 == [tab |-> fdtab, p |-> NoPipe, e |-> "OK"]
         s1 == SpawnStdio(s0, options.stdin_stream, "stdin", o, failAt = 1)
         s2 == SpawnStdio(s1, options.stdout_stream, "stdout", o, failAt = 2)
         s3 == SpawnStdio(s2, options.stderr_stream, "stderr", o, failAt = 3)
         s4 == SpawnSignalPipe(s3, o, failAt = 4)
     IN /\ cur' = [h |-> h, stdin_stream |-> options.stdin_stream,
                   stdout_stream |-> options.stdout_stream,
                   stderr_stream |-> options.stderr_stream]
        /\ process' = [process EXCEPT ![h].state = "spawning",
                                      ![h].exit_cb = options.exit_cb]
        /\ stdin_pipe' = s1.p
        /\ stdout_pipe' = s2.p
        /\ stderr_pipe' = s3.p
        /\ signal_pipe' = s4.p
        /\ pid' = -1
        /\ fdtab' = s4.tab
        /\ err' = IF s4.e = "OK" THEN err ELSE s4.e
        /\ pc' = IF s4.e = "OK" THEN "sp_fork" ELSE "sp_error"
  /\ UNCHANGED << ret, proc, sigchld, clock, sigchld_pipe, spawn, sync, pipes >>

(***************************************************************************)
(* uv_spawn, lines 167-176: fork().  On failure the synchronization pipe   *)
(* is closed and control jumps to the error label.                         *)
(***************************************************************************)
uv_spawn_fork_fails_Leak ==
  /\ pc = "sp_fork"
  /\ pid' = -1
  /\ err' = "EAGAIN"
  /\ pc' = "sp_error"
  /\ UNCHANGED << ret, fdtab, proc, sigchld, clock, process, cur, stdin_pipe,
                  stdout_pipe, stderr_pipe, signal_pipe, sigchld_pipe, spawn,
                  sync, pipes >>

uv_spawn_fork_fails ==
  /\ pc = "sp_fork"
  /\ pid' = -1
  /\ fdtab' = CloseAll(fdtab, signal_pipe)
  /\ err' = "EAGAIN"
  /\ pc' = "sp_error"
  /\ UNCHANGED << ret, proc, sigchld, clock, process, cur, stdin_pipe,
                  stdout_pipe, stderr_pipe, signal_pipe, sigchld_pipe, spawn,
                  sync, pipes >>

uv_spawn_fork(p) ==
  /\ pc = "sp_fork"
  /\ p = NextPid
  /\ pid' = p
  /\ proc' = [proc EXCEPT ![p] = [st |-> "forked", status |-> 0, call |-> cur.h]]
  /\ pc' = "sp_closew"
  /\ UNCHANGED << ret, err, fdtab, sigchld, clock, process, cur,
                  stdin_pipe, stdout_pipe, stderr_pipe, signal_pipe,
                  sigchld_pipe, spawn, sync, pipes >>

(***************************************************************************)
(* uv_spawn, lines 212-221: the parent closes the write end of the         *)
(* synchronization pipe and polls the read end until POLLHUP.              *)
(***************************************************************************)
uv_spawn_close_write ==
  /\ pc = "sp_closew"
  /\ fdtab' = IF SPAWN_WAIT_EXEC = 1 THEN Close(fdtab, signal_pipe[2]) ELSE fdtab
  /\ pc' = "sp_poll"
  /\ UNCHANGED << ret, err, proc, sigchld, clock, process, cur,
                  stdin_pipe, stdout_pipe, stderr_pipe, signal_pipe, pid,
                  sigchld_pipe, spawn, sync, pipes >>

\* every write end of the pipe of call o is closed: the parent's, and the
\* child's copy, which is close-on-exec and closes when it execs or exits
POLLHUP_ParentOnly(tab, prc, o, child) ==
  \A fd \in Fds : tab[fd] # File(o, "signal", "w")

POLLHUP(tab, prc, o, child) ==
  /\ \A fd \in Fds : tab[fd] # File(o, "signal", "w")
  /\ prc[child].st # "forked"

uv_spawn_poll ==
  /\ pc = "sp_poll"
  /\ SPAWN_WAIT_EXEC = 1 => POLLHUP(fdtab, proc, cur.h, pid)
  /\ pc' = "sp_finish"
  /\ UNCHANGED << ret, err, fdtab, proc, sigchld, clock, process, cur,
                  stdin_pipe, stdout_pipe, stderr_pipe, signal_pipe, pid,
                  sigchld_pipe, spawn, sync, pipes >>

(***************************************************************************)
(* uv_spawn, lines 223-265: close the synchronization pipe, record the     *)
(* pid, start the child watcher, close the child's ends of the stdio       *)
(* pipes, attach the parent's ends to the streams, return 0.               *)
(***************************************************************************)
SpawnCloseSignal(tab, sp) ==
  IF SPAWN_WAIT_EXEC = 1 THEN Close(Close(tab, sp[1]), sp[2]) ELSE tab

SpawnAttach(tab, h) ==
  LET t1 == IF stdin_pipe[2] >= 0 THEN Close(tab, stdin_pipe[1]) ELSE tab
      t2 == IF stdout_pipe[1] >= 0 THEN Close(t1, stdout_pipe[2]) ELSE t1
      t3 == IF stderr_pipe[1] >= 0 THEN Close(t2, stderr_pipe[2]) ELSE t2
  IN [tab |-> t3,
      h   |-> [h EXCEPT !.stdin_fd  = stdin_pipe[2],
                        !.stdout_fd = stdout_pipe[1],
                        !.stderr_fd = stderr_pipe[1]]]

uv_spawn_finish ==
  /\ pc = "sp_finish"
  /\ LET reg == [process[cur.h] EXCEPT !.pid = pid, !.pid_set = TRUE,
                                       !.watcher = TRUE, !.state = "ok"]
         a   == SpawnAttach(SpawnCloseSignal(fdtab, signal_pipe), reg)
     IN /\ fdtab' = a.tab
        /\ process' = [process EXCEPT ![cur.h] = a.h]
  /\ ret' = 0
  /\ pc' = "sp_ret"
  /\ UNCHANGED << err, proc, sigchld, clock, cur, stdin_pipe,
                  stdout_pipe, stderr_pipe, signal_pipe, pid, sigchld_pipe,
                  spawn, sync, pipes >>

(***************************************************************************)
(* uv_spawn, lines 267-275: the error label.                               *)
(***************************************************************************)
uv_spawn_error ==
  /\ pc = "sp_error"
  /\ fdtab' = CloseAll(fdtab, stdin_pipe \o stdout_pipe \o stderr_pipe)
  /\ process' = [process EXCEPT ![cur.h].state = "failed"]
  /\ ret' = -1
  /\ pc' = "sp_ret"
  /\ UNCHANGED << err, proc, sigchld, clock, cur, stdin_pipe,
                  stdout_pipe, stderr_pipe, signal_pipe, pid, sigchld_pipe,
                  spawn, sync, pipes >>

(***************************************************************************)
(* uv_spawn_sync.  The request/result record: one sub-record per stream    *)
(* (stdout.read is spawn->stdout_read, stdin.written is                    *)
(* spawn->stdin_written, ...); data is what the buffer holds below the     *)
(* cursor.                                                                 *)
(***************************************************************************)
NoCapture == [buf |-> FALSE, size |-> 0, read |-> 0, data |-> << >>]
NoSpawn == [stdin  |-> [buf |-> FALSE, size |-> 0, written |-> 0],
            stdout |-> NoCapture,
            stderr |-> NoCapture,
            timeout |-> 0, pid |-> 0, exit_code |-> 0, exit_signal |-> 0,
            exit_timeout |-> 0]
NoSync == [n |-> 0, o |-> 0, start_time |-> 0, time_to_timeout |-> 0,
           tv_sec |-> 0, tv_usec |-> 0, sel_start |-> 0,
           r |-> 0, read_fds |-> {}, write_fds |-> {}]
NoPipes == [stdout |-> << >>, stderr |-> << >>, sigchld |-> 0,
            wrote |-> [stdout |-> 0, stderr |-> 0]]

\* a request: size 0 stands for a stream that is not requested (a null
\* buffer), the timeout is given in ticks
Requests ==
  [stdin_size : 0..MaxCap, stdout_size : 0..MaxCap, stderr_size : 0..MaxCap,
   timeout : 1..MaxTimeout]

\* lines 406-438: the top of the loop, up to the call of select()
SyncSelectArgs(loc, req, loop_time, now) ==
  LET elapsed == loop_time - loc.start_time
      ttt     == req.timeout - elapsed
      time_to_timeout == IF ttt < 0 THEN 0 ELSE ttt
  IN [loc EXCEPT !.time_to_timeout = time_to_timeout,
                 !.tv_sec = time_to_timeout \div 1000,
                 !.tv_usec = time_to_timeout % 1000,
                 !.sel_start = now,
                 !.r = 0, !.read_fds = {}, !.write_fds = {}]

\* the wait ceiling select() is given, in microseconds
SelectCeiling(loc) == loc.tv_sec * 1000000 + loc.tv_usec

\* the descriptors the loop hands to select(), lines 411-426
SyncWatched(req) ==
  (IF req.stdout.buf THEN {"stdout"} ELSE {})
    \cup (IF req.stderr.buf THEN {"stderr"} ELSE {})
    \cup (IF req.stdin.buf THEN {"stdin"} ELSE {})
    \cup {"sigchld"}

\* end-of-stream on a capture pipe: the parent closed its write end after
\* fork(), so the child holds the only one
SyncEOF(s) == pipes[s] = << >> /\ ~Alive(spawn.pid)

SyncReady(w) ==
  { s \in w : \/ s \in Captured /\ (pipes[s] # << >> \/ SyncEOF(s))
              \/ s = "stdin"
              \/ s = "sigchld" /\ pipes.sigchld > 0 }

\* the parent's ends of the pipes, closed on every way out of the loop
SyncCloseAll(tab) ==
  LET t0 == CloseAll(tab, sigchld_pipe)
      t1 == IF spawn.stdin.buf THEN Close(t0, stdin_pipe[2]) ELSE t0
      t2 == IF spawn.stdout.buf THEN Close(t1, stdout_pipe[1]) ELSE t1
      t3 == IF spawn.stderr.buf THEN Close(t2, stderr_pipe[1]) ELSE t2
  IN t3

\* lines 316-341: reset the result fields, then one pipe() per requested
\* stream and one for the self-pipe; a failing pipe() returns -1 at once
SyncPipe(prev, wanted, k, o, fails) ==
  IF prev.e # "OK" \/ ~wanted THEN [prev EXCEPT !.p = NoPipe]
  ELSE IF fails \/ ~CanPipe(prev.tab) THEN [prev EXCEPT !.p = NoPipe, !.e = "EMFILE"]
  ELSE [tab |-> OpenPipe(prev.tab, o, k), p |-> PipeFds(prev.tab), e |-> "OK"]

uv_spawn_sync_begin(req, failAt) ==
  /\ pc = "idle"
  /\ sync.n < MaxSync
  /\ LET o  == MaxHandles + sync.n + 1
         s0 == [tab |-> fdtab, p |-> NoPipe, e |-> "OK"]
         s1 == SyncPipe(s0, req.stdin_size > 0, "stdin", o, failAt = 1)
         s2 == SyncPipe(s1, req.stdout_size > 0, "stdout", o, failAt = 2)
         s3 == SyncPipe(s2, req.stderr_size > 0, "stderr", o, failAt = 3)
         s4 == SyncPipe(s3, TRUE, "sigchld", o, failAt = 4)
     IN /\ spawn' = [stdin  |-> [buf |-> req.stdin_size > 0,
                                 size |-> req.stdin_size, written |-> 0],
                     stdout |-> [buf |-> req.stdout_size > 0,
                                 size |-> req.stdout_size,
                                 read |-> 0, data |-> << >>],
                     stderr |-> [buf |-> req.stderr_size > 0,
                                 size |-> req.stderr_size,
                                 read |-> 0, data |-> << >>],
                     timeout |-> req.timeout * TickMs,
                     pid |-> -1, exit_code |-> -1, exit_signal |-> -1,
                     exit_timeout |-> 0]
        /\ sync' = [NoSync EXCEPT !.n = sync.n + 1, !.o = o]
        /\ pipes' = NoPipes
        /\ stdin_pipe' = s1.p
        /\ stdout_pipe' = s2.p
        /\ stderr_pipe' = s3.p
        /\ sigchld_pipe' = IF s3.e = "OK" /\ s4.e = "OK" THEN s4.p ELSE sigchld_pipe
        /\ fdtab' = s4.tab
        /\ err' = IF s4.e = "OK" THEN err ELSE s4.e
        /\ ret' = IF s4.e = "OK" THEN ret ELSE -1
        /\ pc' = IF s4.e = "OK" THEN "sy_fork" ELSE "sy_ret"
  /\ UNCHANGED << proc, sigchld, clock, process, cur, signal_pipe, pid >>

\* lines 343-346: fork() fails
uv_spawn_sync_fork_fails ==
  /\ pc = "sy_fork"
  /\ spawn' = [spawn EXCEPT !.pid = -1]
  /\ err' = "EAGAIN"
  /\ ret' = -1
  /\ pc' = "sy_ret"
  /\ UNCHANGED << fdtab, proc, sigchld, clock, process, cur, stdin_pipe,
                  stdout_pipe, stderr_pipe, signal_pipe, pid, sigchld_pipe,
                  sync, pipes >>

\* lines 343, 375-394: fork() succeeds; the parent closes the child's ends
\* and reads the loop's clock
SyncParentClose(tab) ==
  LET t1 == IF spawn.stdout.buf THEN Close(tab, stdout_pipe[2]) ELSE tab
      t2 == IF spawn.stderr.buf THEN Close(t1, stderr_pipe[2]) ELSE t1
      t3 == IF spawn.stdin.buf THEN Close(t2, stdin_pipe[1]) ELSE t2
  IN t3

uv_spawn_sync_fork(p) ==
  /\ pc = "sy_fork"
  /\ p = NextPid
  /\ spawn' = [spawn EXCEPT !.pid = p]
  /\ proc' = [proc EXCEPT ![p] = [st |-> "running", status |-> 0, call |-> sync.o]]
  /\ fdtab' = SyncParentClose(fdtab)
  /\ sync' = [sync EXCEPT !.start_time = clock.loop]
  /\ pc' = "sy_sigaction"
  /\ UNCHANGED << ret, err, sigchld, clock, process, cur, stdin_pipe,
                  stdout_pipe, stderr_pipe, signal_pipe, pid, sigchld_pipe,
                  pipes >>

\* lines 555-572: the error label: close the parent's ends, kill the child,
\* return -1 (the code before the jump has recorded the error e)
uv_spawn_sync_error(e) ==
  /\ err' = e
  /\ fdtab' = SyncCloseAll(fdtab)
  /\ proc' = Kill(proc, spawn.pid, SIGKILL)
  /\ sigchld' = [sigchld EXCEPT !.pending = @ \/ Alive(spawn.pid)]
  /\ ret' = -1
  /\ pc' = "sy_ret"

\* lines 396-404: install SyncCHLDHandler for SIGCHLD, then enter the loop
uv_spawn_sync_sigaction(ok) ==
  /\ pc = "sy_sigaction"
  /\ IF ok
     THEN /\ sigchld' = [sigchld EXCEPT !.handler = "SyncCHLDHandler"]
          /\ sync' = SyncSelectArgs(sync, spawn, clock.loop, clock.now)
          /\ pc' = "sy_select"
          /\ UNCHANGED << ret, err, fdtab, proc >>
     ELSE /\ uv_spawn_sync_error("EINVAL")
          /\ sync' = sync
  /\ UNCHANGED << clock, process, cur, stdin_pipe, stdout_pipe, stderr_pipe,
                  signal_pipe, pid, sigchld_pipe, spawn, pipes >>

(***************************************************************************)
(* The loop of uv_spawn_sync.  While pc = "sy_select" the parent is        *)
(* blocked in select(); the wall clock ticks every TickMs milliseconds, so *)
(* when it shows that d ms have passed, less than d + TickMs have.         *)
(***************************************************************************)
SelectExpired(loc, now) ==
  SelectCeiling(loc) < (now - loc.sel_start + TickMs) * 1000
SelectOverdue(loc, now) == SelectCeiling(loc) <= (now - loc.sel_start) * 1000

\* lines 438, 449-469: select() returns 0: close, kill, report the timeout
\* (a pending signal would have interrupted the wait first)
uv_spawn_sync_timeout ==
  /\ pc = "sy_select"
  /\ ~sigchld.pending
  /\ SyncReady(SyncWatched(spawn)) = {}
  /\ SelectExpired(sync, clock.now)
  /\ sync' = [sync EXCEPT !.r = 0]
  /\ fdtab' = SyncCloseAll(fdtab)
  /\ proc' = Kill(proc, spawn.pid, SIGKILL)
  /\ sigchld' = [sigchld EXCEPT !.pending = @ \/ Alive(spawn.pid)]
  /\ spawn' = [spawn EXCEPT !.exit_timeout = 1]
  /\ ret' = 0
  /\ pc' = "sy_ret"
  /\ UNCHANGED << err, clock, process, cur, stdin_pipe, stdout_pipe,
                  stderr_pipe, signal_pipe, pid, sigchld_pipe, pipes >>

\* lines 438-447: select() fails with an error other than EINTR
uv_spawn_sync_select_fails ==
  /\ pc = "sy_select"
  /\ sync' = [sync EXCEPT !.r = -1]
  /\ uv_spawn_sync_error("ENOMEM")
  /\ UNCHANGED << clock, process, cur, stdin_pipe, stdout_pipe, stderr_pipe,
                  signal_pipe, pid, sigchld_pipe, spawn, pipes >>

\* the conditions of lines 471, 482, 500 and 516 in turn: where the pass
\* goes next once it has reached the given point
SyncFeeds(sp, loc) ==
  sp.stdin.buf /\ "stdin" \in loc.write_fds /\ sp.stdin.written < sp.stdin.size
SyncReads(sp, loc, s) == sp[s].buf /\ s \in loc.read_fds

SyncStep(sp, loc, from) ==
  IF from = "sy_select" /\ SyncFeeds(sp, loc) THEN "sy_stdin"
  ELSE IF from \in {"sy_select", "sy_stdin"} /\ SyncReads(sp, loc, "stdout")
  THEN "sy_stdout"
  ELSE IF from \in {"sy_select", "sy_stdin", "sy_stdout"}
          /\ SyncReads(sp, loc, "stderr")
  THEN "sy_stderr"
  ELSE "sy_chld"

\* line 438: select() returns the descriptors that are ready
uv_spawn_sync_select ==
  /\ pc = "sy_select"
  /\ LET ready == SyncReady(SyncWatched(spawn))
     IN /\ ready # {}
        /\ sync' = [sync EXCEPT !.r = Cardinality(ready),
                                !.read_fds = ready \ {"stdin"},
                                !.write_fds = ready \cap {"stdin"}]
  /\ pc' = SyncStep(spawn, sync', "sy_select")
  /\ UNCHANGED << ret, err, fdtab, proc, sigchld, clock, process, cur,
                  stdin_pipe, stdout_pipe, stderr_pipe, signal_pipe, pid,
                  sigchld_pipe, spawn, pipes >>

\* SyncCHLDHandler, lines 294-301: one byte into sigchld_pipe[1]
SyncCHLDHandler(pp) ==
  IF IsOpen(sigchld_pipe[2]) /\ fdtab[sigchld_pipe[2]] = File(sync.o, "sigchld", "w")
  THEN [pp EXCEPT !.sigchld = @ + 1]
  ELSE pp

\* lines 471-480: feed the child's stdin.  write() takes some of the bytes,
\* or a signal handler runs first (EINTR), or the child is gone (EPIPE)
uv_spawn_sync_stdin(written) ==
  /\ pc = "sy_stdin"
  /\ SyncFeeds(spawn, sync)
  /\ \/ /\ written \in 1..(spawn.stdin.size - spawn.stdin.written)
        /\ Alive(spawn.pid)
        /\ spawn' = [spawn EXCEPT !.stdin.written = @ + written]
        /\ pc' = SyncStep(spawn, sync, "sy_stdin")
        /\ UNCHANGED << ret, err, fdtab, proc, sigchld, pipes >>
     \/ /\ written = -1
        /\ sigchld.pending
        /\ sigchld' = [sigchld EXCEPT !.pending = FALSE]
        /\ pipes' = IF sigchld.handler = "SyncCHLDHandler"
                    THEN SyncCHLDHandler(pipes) ELSE pipes
        /\ spawn' = [spawn EXCEPT !.stdin.written = @ + written]
        /\ pc' = SyncStep(spawn, sync, "sy_stdin")
        /\ UNCHANGED << ret, err, fdtab, proc >>
     \/ /\ written = -1
        /\ ~Alive(spawn.pid)
        /\ uv_spawn_sync_error("EPIPE")
        /\ UNCHANGED << spawn, pipes >>
  /\ UNCHANGED << clock, process, cur, stdin_pipe, stdout_pipe, stderr_pipe,
                  signal_pipe, pid, sigchld_pipe, sync >>

\* lines 482-498 (stdout) and 500-514 (stderr): the overflow check, then one
\* read() into what is left of the capture buffer
SyncOverflow(c) == c.size - c.read <= 0

SyncReadLen_Unclamped(c, avail) == avail

SyncReadLen(c, avail) ==
  IF avail < c.size - c.read THEN avail ELSE c.size - c.read

SyncCapture(s, here, fails) ==
  /\ pc = here
  /\ SyncReads(spawn, sync, s)
  /\ IF SyncOverflow(spawn[s])
     THEN /\ ~fails
          /\ uv_spawn_sync_error("UV_ENOBUFS")
          /\ UNCHANGED << spawn, sync, pipes >>
     ELSE IF fails
     THEN /\ uv_spawn_sync_error("EIO")
          /\ sync' = [sync EXCEPT !.r = -1]
          /\ UNCHANGED << spawn, pipes >>
     ELSE LET r == SyncReadLen(spawn[s], Len(pipes[s]))
          IN /\ spawn' = [spawn EXCEPT
                            ![s].data = @ \o SubSeq(pipes[s], 1, r),
                            ![s].read = @ + r]
             /\ pipes' = [pipes EXCEPT ![s] = SubSeq(@, r + 1, Len(@))]
             /\ sync' = [sync EXCEPT !.r = r]
             /\ pc' = SyncStep(spawn, sync, here)
             /\ UNCHANGED << ret, err, fdtab, proc, sigchld >>
  /\ UNCHANGED << clock, process, cur, stdin_pipe, stdout_pipe, stderr_pipe,
                  signal_pipe, pid, sigchld_pipe >>

uv_spawn_sync_stdout(fails) == SyncCapture("stdout", "sy_stdout", fails)
uv_spawn_sync_stderr(fails) == SyncCapture("stderr", "sy_stderr", fails)

\* lines 541-547: decode the wait status into the result fields
SyncDecode_ExitOnly(sp, status) ==
  IF WIFEXITED(status)
  THEN [sp EXCEPT !.exit_code = WEXITSTATUS(status)] ELSE sp

SyncDecode(sp, status) ==
  LET a == IF WIFEXITED(status)
           THEN [sp EXCEPT !.exit_code = WEXITSTATUS(status)] ELSE sp
  IN IF WIFSIGNALED(status)
     THEN [a EXCEPT !.exit_signal = WTERMSIG(status)] ELSE a

\* lines 516-550: the self-pipe is readable: wait() for any child (it blocks
\* while children run and none has terminated, it fails when there is no
\* child), close, decode the status, return 0
uv_spawn_sync_wait(p) ==
  /\ pc = "sy_chld"
  /\ "sigchld" \in sync.read_fds
  /\ IF \E q \in Pids : Exists(q)
     THEN /\ Zombie(p)
          /\ proc' = [proc EXCEPT ![p] = NoProc]
          /\ fdtab' = SyncCloseAll(fdtab)
          /\ spawn' = SyncDecode(spawn, proc[p].status)
          /\ ret' = 0
          /\ pc' = "sy_ret"
          /\ UNCHANGED << err, sigchld >>
     ELSE /\ p = Lowest(Pids)
          /\ uv_spawn_sync_error("ECHILD")
          /\ spawn' = spawn
  /\ UNCHANGED << clock, process, cur, stdin_pipe, stdout_pipe, stderr_pipe,
                  signal_pipe, pid, sigchld_pipe, sync, pipes >>

\* lines 516, 552, 406-438: the self-pipe is not readable: update the loop's
\* clock and go round again
uv_spawn_sync_next_pass ==
  /\ pc = "sy_chld"
  /\ "sigchld" \notin sync.read_fds
  /\ clock' = [clock EXCEPT !.loop = clock.now]
  /\ sync' = SyncSelectArgs(sync, spawn, clock.now, clock.now)
  /\ pc' = "sy_select"
  /\ UNCHANGED << ret, err, fdtab, proc, sigchld, process, cur,
                  stdin_pipe, stdout_pipe, stderr_pipe, signal_pipe, pid,
                  sigchld_pipe, spawn, pipes >>

(***************************************************************************)
(* uv_process_kill, lines 279-288.  A handle whose uv_spawn failed never   *)
(* had process->pid written: what kill() is given is indeterminate.        *)
(***************************************************************************)
KillTargets(h) ==
  IF process[h].pid_set THEN {process[h].pid} ELSE 1..(MaxPid + 1)

uv_process_kill(h, signum, target) ==
  /\ pc = "idle"
  /\ process[h].state \in {"ok", "failed"}
  /\ target \in KillTargets(h)
  /\ cur' = [NoCur EXCEPT !.h = h]
  /\ pid' = target
  /\ proc' = Kill(proc, target, signum)
  /\ sigchld' = [sigchld EXCEPT !.pending = @ \/ Alive(target)]
  /\ ret' = IF Exists(target) THEN 0 ELSE -1
  /\ err' = IF Exists(target) THEN err ELSE "ESRCH"
  /\ pc' = "kill_ret"
  /\ UNCHANGED << fdtab, clock, process, stdin_pipe, stdout_pipe,
                  stderr_pipe, signal_pipe, sigchld_pipe, spawn, sync, pipes >>

(***************************************************************************)
(* The children.                                                           *)
(***************************************************************************)
\* uv_spawn, lines 178-201: the child reaches execvp(); its close-on-exec
\* descriptors close
ChildExec(p) ==
  /\ p \in Pids
  /\ proc[p].st = "forked"
  /\ proc' = [proc EXCEPT ![p].st = "running"]
  /\ UNCHANGED << pc, ret, err, fdtab, sigchld, clock, process, cur,
                  stdin_pipe, stdout_pipe, stderr_pipe, signal_pipe, pid,
                  sigchld_pipe, spawn, sync, pipes >>

\* a child terminates: _exit(127) when chdir() or execvp() failed (lines
\* 194-203, 369-371), any exit code or a fatal signal afterwards
ExitStatuses(st) ==
  { W_EXITCODE(c, 0) : c \in IF st = "forked" THEN {ExecFailed} ELSE ExitCodes }
    \cup { W_EXITCODE(0, SIGTERM) }

ChildExit(p, status) ==
  /\ Alive(p)
  /\ status \in ExitStatuses(proc[p].st)
  /\ proc' = Die(proc, p, status)
  /\ sigchld' = [sigchld EXCEPT !.pending = TRUE]
  /\ UNCHANGED << pc, ret, err, fdtab, clock, process, cur,
                  stdin_pipe, stdout_pipe, stderr_pipe, signal_pipe, pid,
                  sigchld_pipe, spawn, sync, pipes >>

\* the child of the uv_spawn_sync call in flight writes its next byte to a
\* captured stream (lines 354-367 rebind its stdout and stderr)
SyncInFlight ==
  pc \in {"sy_sigaction", "sy_select", "sy_stdin", "sy_stdout", "sy_stderr",
          "sy_chld"}

SyncChildWrite(s) ==
  /\ SyncInFlight
  /\ Alive(spawn.pid)
  /\ proc[spawn.pid].call = sync.o
  /\ spawn[s].buf
  /\ pipes.wrote[s] < MaxOut
  /\ pipes' = [pipes EXCEPT ![s] = Append(@, pipes.wrote[s] + 1),
                            !.wrote[s] = @ + 1]
  /\ UNCHANGED << pc, ret, err, fdtab, proc, sigchld, clock, process,
                  cur, stdin_pipe, stdout_pipe, stderr_pipe, signal_pipe, pid,
                  sigchld_pipe, spawn, sync >>

(***************************************************************************)
(* The kernel delivers a pending SIGCHLD to the parent.  SyncCHLDHandler   *)
(* runs if uv_spawn_sync installed it (line 401); a select() it interrupts *)
(* fails with EINTR and the loop starts the pass again (lines 440-443).    *)
(***************************************************************************)
DeliverSIGCHLD ==
  /\ sigchld.pending
  /\ sigchld' = [sigchld EXCEPT !.pending = FALSE]
  /\ pipes' = IF sigchld.handler = "SyncCHLDHandler"
              THEN SyncCHLDHandler(pipes) ELSE pipes
  /\ sync' = IF pc = "sy_select"
             THEN SyncSelectArgs(sync, spawn, clock.loop, clock.now)
             ELSE sync
  /\ UNCHANGED << pc, ret, err, fdtab, proc, clock, process, cur,
                  stdin_pipe, stdout_pipe, stderr_pipe, signal_pipe, pid,
                  sigchld_pipe, spawn >>

(***************************************************************************)
(* The reactor: between calls its child watcher reports a watched pid      *)
(* whose wait status has become available.                                 *)
(***************************************************************************)
Watching(h, p) == process[h].watcher /\ process[h].pid = p

ReactorChild(p) ==
  /\ pc = "idle"
  /\ Zombie(p)
  /\ \E h \in Handles : Watching(h, p)
  /\ proc' = [proc EXCEPT ![p] = NoProc]
  /\ process' = [h \in Handles |->
                   IF Watching(h, p) THEN uv__chld(process[h], proc[p].status)
                   ELSE process[h]]
  /\ UNCHANGED << pc, ret, err, fdtab, sigchld, clock, cur,
                  stdin_pipe, stdout_pipe, stderr_pipe, signal_pipe, pid,
                  sigchld_pipe, spawn, sync, pipes >>

\* the wall clock ticks (only uv_spawn_sync reads it); a pending signal is
\* delivered first, and a select() whose ceiling has passed returns first
Tick ==
  /\ pc = "sy_fork" \/ SyncInFlight
  /\ ~sigchld.pending
  /\ clock.now < MaxTime * TickMs
  /\ ~(pc = "sy_select" /\ SelectOverdue(sync, clock.now))
  /\ clock' = [clock EXCEPT !.now = @ + TickMs]
  /\ UNCHANGED << pc, ret, err, fdtab, proc, sigchld, process, cur,
                  stdin_pipe, stdout_pipe, stderr_pipe, signal_pipe, pid,
                  sigchld_pipe, spawn, sync, pipes >>

\* the call returns: its locals are gone, the caller has the result, and
\* the loop's next iteration updates its clock
Return ==
  /\ pc \in {"sp_ret", "sy_ret", "kill_ret"}
  /\ pc' = "idle"
  /\ ret' = 0
  /\ err' = "OK"
  /\ cur' = NoCur
  /\ stdin_pipe' = NoPipe
  /\ stdout_pipe' = NoPipe
  /\ stderr_pipe' = NoPipe
  /\ signal_pipe' = NoPipe
  /\ pid' = -1
  /\ spawn' = NoSpawn
  /\ sync' = [NoSync EXCEPT !.n = sync.n]
  /\ pipes' = NoPipes
  /\ clock' = [clock EXCEPT !.loop = clock.now]
  /\ UNCHANGED << fdtab, proc, sigchld, process, sigchld_pipe >>


(***************************************************************************)
(* The specification.                                                      *)
(***************************************************************************)
Options ==
  [stdin_stream : StreamKinds, stdout_stream : StreamKinds,
   stderr_stream : StreamKinds, exit_cb : BOOLEAN]

Init ==
  /\ pc = "idle"
  /\ ret = 0
  /\ err = "OK"
  /\ fdtab = [fd \in Fds |-> NoFile]
  /\ proc = [p \in Pids |-> NoProc]
  /\ sigchld = [pending |-> FALSE, handler |-> "reactor"]
  /\ clock = [now |-> 0, loop |-> 0]
  /\ process = [h \in Handles |-> NoHandle]
  /\ cur = NoCur
  /\ stdin_pipe = NoPipe
  /\ stdout_pipe = NoPipe
  /\ stderr_pipe = NoPipe
  /\ signal_pipe = NoPipe
  /\ pid = -1
  /\ sigchld_pipe = << 0, 0 >>
  /\ spawn = NoSpawn
  /\ sync = NoSync
  /\ pipes = NoPipes

SpawnNext(H, O) ==
  \/ \E h \in H, options \in O, failAt \in 0..4 :
       uv_spawn_begin(h, options, failAt)
  \/ uv_spawn_fork_fails
  \/ \E p \in Pids : uv_spawn_fork(p)
  \/ uv_spawn_close_write
  \/ uv_spawn_poll
  \/ uv_spawn_finish
  \/ uv_spawn_error
  \/ \E h \in H, signum \in Signals, target \in 1..(MaxPid + 1) :
       uv_process_kill(h, signum, target)
  \/ \E p \in Pids : ChildExec(p)
  \/ \E p \in Pids : ReactorChild(p)

SyncNext(R) ==
  \/ \E req \in R, failAt \in 0..4 : uv_spawn_sync_begin(req, failAt)
  \/ uv_spawn_sync_fork_fails
  \/ \E p \in Pids : uv_spawn_sync_fork(p)
  \/ \E ok \in BOOLEAN : uv_spawn_sync_sigaction(ok)
  \/ uv_spawn_sync_timeout
  \/ uv_spawn_sync_select_fails
  \/ uv_spawn_sync_select
  \/ \E written \in -1..MaxCap : uv_spawn_sync_stdin(written)
  \/ \E fails \in BOOLEAN : uv_spawn_sync_stdout(fails)
  \/ \E fails \in BOOLEAN : uv_spawn_sync_stderr(fails)
  \/ \E p \in Pids : uv_spawn_sync_wait(p)
  \/ uv_spawn_sync_next_pass
  \/ \E s \in Captured : SyncChildWrite(s)
  \/ Tick

EnvNext ==
  \/ Return
  \/ \E p \in Pids, status \in ExitStatuses("running") : ChildExit(p, status)
  \/ DeliverSIGCHLD

\* one uv_spawn and one uv_spawn_sync in the same process, few inputs
FewOptions ==
  { o \in Options : o.stdin_stream = "none" /\ o.stderr_stream = "none"
                    /\ o.stdout_stream # "UV_TCP" }
FewRequests ==
  { r \in Requests : r.stdin_size = r.stdout_size /\ r.stderr_size = 0
                     /\ r.stdout_size \in {0, 1} /\ r.timeout = 1 }

Next == SpawnNext({1}, FewOptions) \/ SyncNext(FewRequests) \/ EnvNext
Spec == Init /\ [][Next]_vars

\* uv_spawn, uv__chld and uv_process_kill alone, every option
NextSpawn == SpawnNext(Handles, Options) \/ EnvNext
SpecSpawn == Init /\ [][NextSpawn]_vars

\* uv_spawn_sync alone, every request
NextSync == SyncNext(Requests) \/ EnvNext
SpecSync == Init /\ [][NextSync]_vars

(***************************************************************************)
(* Properties.                                                             *)
(***************************************************************************)
SpawnPcs == {"sp_fork", "sp_closew", "sp_poll", "sp_finish", "sp_error", "sp_ret"}

\* the child that handle h spawned has been reaped
ChildReaped(h) ==
  /\ process[h].pid_set
  /\ ~(Exists(process[h].pid) /\ proc[process[h].pid].call = h)

\* C1: every handle whose uv_spawn returned 0 has its exit_cb invoked exactly
\* once, never twice and not zero times once its child has terminated and is
\* gone, with (exit code, 0) after a normal exit and (0, signal) after a
\* signal, whatever other spawns, uv_spawn_sync included, the process makes
C1_ExitCbExactlyOnce ==
  \A h \in Handles :
    (process[h].state = "ok" /\ process[h].exit_cb) =>
      /\ process[h].cb_calls <= 1
      /\ ChildReaped(h) => process[h].cb_calls = 1
      /\ process[h].cb_calls = 1 =>
           \/ process[h].cb_term_signal = 0
           \/ process[h].cb_exit_status = 0

\* C2: a uv_spawn request with a binding to a stream that is not a
\* UV_NAMED_PIPE is rejected with EINVAL, without fork(), and before the call
\* has made any pipe
NonPipeBinding(c) ==
  \E k \in {c.stdin_stream, c.stdout_stream, c.stderr_stream} :
    k \notin {"none", "UV_NAMED_PIPE"}

C2_RejectedBeforeAnyPipe ==
  (pc \in SpawnPcs /\ NonPipeBinding(cur)) =>
    /\ pc \in {"sp_error", "sp_ret"}
    /\ err = "EINVAL"
    /\ pid = -1
    /\ pc = "sp_error" =>
         /\ stdin_pipe = NoPipe /\ stdout_pipe = NoPipe
         /\ stderr_pipe = NoPipe /\ signal_pipe = NoPipe

\* C3: process->pid is written and the child watcher started only after the
\* parent has closed the write end of the synchronization pipe and seen
\* POLLHUP: never while the child is between fork() and exec
C3_PidOnlyAfterExec ==
  /\ \A h \in Handles :
       (process[h].pid_set \/ process[h].watcher) =>
         ~(proc[process[h].pid].st = "forked" /\ proc[process[h].pid].call = h)
  /\ pc \in {"sp_fork", "sp_closew", "sp_poll", "sp_finish"} =>
       ~process[cur.h].pid_set /\ ~process[cur.h].watcher
  /\ pc = "sp_finish" =>
       /\ proc[pid].st # "forked"
       /\ \A fd \in Fds : fdtab[fd] # File(cur.h, "signal", "w")

C3_Witness ==
  /\ pc = "sp_ret"
  /\ ret = 0
  /\ process[cur.h].pid_set
  /\ process[cur.h].watcher
  /\ proc[process[cur.h].pid] = [st |-> "running", status |-> 0, call |-> cur.h]

\* C4: when uv_spawn returns -1, every descriptor the call opened is closed,
\* no child exists, no watcher is registered and no pid is in the handle
C4_FailureLeavesNothing ==
  (pc = "sp_ret" /\ ret = -1) =>
    /\ \A fd \in Fds : fdtab[fd].o # cur.h
    /\ pid = -1
    /\ \A p \in Pids : proc[p].call # cur.h
    /\ ~process[cur.h].watcher
    /\ ~process[cur.h].pid_set

C4_Witness ==
  /\ pc = "sp_ret"
  /\ ret = -1
  /\ err = "EAGAIN"
  /\ stdin_pipe # NoPipe /\ stdout_pipe # NoPipe /\ stderr_pipe # NoPipe
  /\ signal_pipe # NoPipe

\* the status of a child that uv_spawn_sync killed
KilledStatus == W_EXITCODE(0, SIGKILL)

\* less than the requested timeout has passed since the call began
BeforeTimeout == clock.now - sync.start_time < spawn.timeout

\* C5: a child of uv_spawn_sync that terminates before the timeout elapses,
\* at any point after fork(), is noticed: once its signal has been delivered
\* the self-pipe is readable, and the call never reports the timed-out
\* outcome for it
C5_TerminationNeverMissed ==
  /\ (/\ pc = "sy_select"
      /\ Zombie(spawn.pid)
      /\ ~sigchld.pending
      /\ BeforeTimeout) => pipes.sigchld > 0
  /\ (/\ pc = "sy_ret"
      /\ ret = 0
      /\ spawn.exit_timeout = 1
      /\ BeforeTimeout) => proc[spawn.pid].status = KilledStatus

\* the step in which wait() returns the status of child p
SyncReaps(p) ==
  /\ pc = "sy_chld"
  /\ pc' = "sy_ret"
  /\ ret' = 0
  /\ Zombie(p)
  /\ proc'[p] = NoProc

TimedOutAtSelect ==
  /\ pc = "sy_select"
  /\ clock.loop - sync.start_time >= spawn.timeout
  /\ sync.time_to_timeout = 0
  /\ Alive(spawn.pid)
  /\ ~sigchld.pending
  /\ pipes.stdout = << >> /\ pipes.stderr = << >> /\ pipes.sigchld = 0

\* C7: when the timeout has elapsed and the child is still running, the wait
\* of uv_spawn_sync ends in the timed-out outcome, whatever streams were
\* requested: the loop does not go on for another pass
C7_TimeoutEndsTheLoop ==
  [][(TimedOutAtSelect /\ pc' # "sy_select" /\ ret' # -1) =>
       (pc' = "sy_ret" /\ ret' = 0 /\ spawn'.exit_timeout = 1)]_vars

\* C8: when uv_spawn_sync returns with exit_timeout = 1 the child has been
\* killed and reaped, so that it no longer exists, and every pipe end the
\* call opened is closed
C8_TimedOutChildIsGone ==
  (pc = "sy_ret" /\ ret = 0 /\ spawn.exit_timeout = 1) =>
    /\ ~Exists(spawn.pid)
    /\ \A fd \in Fds : fdtab[fd].o # sync.o

\* stream s was captured and the child wrote more than the buffer holds
Overflowed(s) == spawn[s].buf /\ pipes.wrote[s] > spawn[s].size

\* C9: uv_spawn_sync never returns 0 when the child wrote more to a captured
\* stream than the buffer holds
C9_OverflowNeverSucceeds ==
  (pc = "sy_ret" /\ ret = 0 /\ spawn.exit_timeout = 0) =>
    \A s \in Captured : ~Overflowed(s)

\* C10: when the child wrote no more than the capacity to every captured
\* stream, a normal return delivers all of it, in order, with the cursor at
\* the number of bytes written, and the call does not report an overflow
C10_ExactFillIsNoOverflow ==
  (pc = "sy_ret" /\ \A s \in Captured : ~Overflowed(s)) =>
    /\ (ret = 0 /\ spawn.exit_timeout = 0) =>
         \A s \in Captured :
           spawn[s].buf =>
             /\ spawn[s].read = pipes.wrote[s]
             /\ spawn[s].data = [i \in 1..pipes.wrote[s] |-> i]
    /\ err # "UV_ENOBUFS"

\* C11: in every state of uv_spawn_sync the read cursor of a capture buffer
\* is between 0 and the capacity of the buffer, and the buffer holds that
\* many bytes: no read stores bytes past the capacity
C11_CursorWithinCapacity ==
  \A s \in Captured :
    /\ 0 <= spawn[s].read
    /\ spawn[s].read <= spawn[s].size
    /\ Len(spawn[s].data) = spawn[s].read

C11_Witness ==
  /\ pc = "sy_chld"
  /\ spawn.stdout.buf
  /\ spawn.stdout.read = spawn.stdout.size
  /\ pipes.stdout # << >>

\* C12: uv_process_kill on a handle without a live process identifier (its
\* uv_spawn failed, or its child has terminated and has been reported)
\* returns -1, and it returns 0 only when the signal went to the child that
\* the handle spawned
C12_KillOnlyOwnChild ==
  pc = "kill_ret" =>
    /\ (process[cur.h].state = "failed" \/ ChildReaped(cur.h)) => ret = -1
    /\ ret = 0 =>
         /\ process[cur.h].pid_set
         /\ pid = process[cur.h].pid
         /\ proc[pid].call = cur.h

\* C13: when uv_spawn_sync returns -1, every descriptor the call opened is
\* closed and the child it created, if any, has been killed and reaped
C13_SyncFailureLeavesNothing ==
  (pc = "sy_ret" /\ ret = -1) =>
    /\ \A fd \in Fds : fdtab[fd].o # sync.o
    /\ ~Exists(spawn.pid)

\* C14: a pass of the loop of uv_spawn_sync in which select() reported the
\* self-pipe readable ends with the child reaped and a return of 0: nothing
\* else handled in that pass makes it end with -1
C14_SelfPipeTakesPriority ==
  [][(/\ pc \in {"sy_stdin", "sy_stdout", "sy_stderr", "sy_chld"}
      /\ "sigchld" \in sync.read_fds
      /\ pc' = "sy_ret") => ret' = 0]_vars

\* C15: the wait set of every pass has the self-pipe, the stdin write end if
\* and only if unsent input remains, and a capture read end only if that
\* stream was requested (the claim also drops a capture end after its
\* end-of-stream; that part is implied by, and not needed for, this formula)
C15_WaitSetExact ==
  pc = "sy_select" =>
    /\ "sigchld" \in SyncWatched(spawn)
    /\ "stdin" \in SyncWatched(spawn) <=>
         (spawn.stdin.buf /\ spawn.stdin.written < spawn.stdin.size)
    /\ \A s \in Captured : s \in SyncWatched(spawn) => spawn[s].buf

\* C16: the step that feeds the child's stdin never moves the send cursor
\* back and leaves it within 0..stdin_size: k bytes accepted add k, an
\* interrupted write (EINTR) and a failed write add nothing
C16_SendCursorMovesForward ==
  [][pc = "sy_stdin" =>
       /\ spawn'.stdin.written >= spawn.stdin.written
       /\ spawn'.stdin.written \in 0..spawn.stdin.size]_vars

\* C17: the wait ceiling handed to select(), tv_sec seconds and tv_usec
\* microseconds, is the remaining budget max(0, timeout - elapsed) in
\* milliseconds, with elapsed as the loop's clock gives it
C17_CeilingIsRemainingBudget ==
  pc = "sy_select" =>
    LET elapsed   == clock.loop - sync.start_time
        remaining == IF spawn.timeout - elapsed < 0 THEN 0
                     ELSE spawn.timeout - elapsed
    IN /\ sync.tv_sec >= 0 /\ sync.tv_usec >= 0
       /\ SelectCeiling(sync) = remaining * 1000

\* C18: the process that uv_spawn_sync reaps when it returns 0 with
\* exit_timeout = 0 is the child it forked, spawn->pid, also when another
\* child of the process terminates while the call is in flight
C18_ReapsItsOwnChild ==
  [][\A p \in Pids : SyncReaps(p) => p = spawn.pid]_vars

\* C19: uv_spawn closes no descriptor twice: the descriptors of the
\* synchronization pipe that lines 223-224 close are still open then; and
\* after a return of 0 the descriptors of the call that are left open are
\* the parent's stdio ends, attached to the handle
C19_NoDescriptorClosedTwice ==
  /\ (pc = "sp_finish" /\ SPAWN_WAIT_EXEC = 1) =>
       \A i \in {1, 2} : fdtab[signal_pipe[i]].o = cur.h
  /\ (pc = "sp_ret" /\ ret = 0) =>
       { fd \in Fds : fdtab[fd].o = cur.h }
         = {stdin_pipe[2], stdout_pipe[1], stderr_pipe[1]} \ {-1}

\* C20: whenever SyncCHLDHandler is about to run (SIGCHLD is pending and it
\* is the installed handler), sigchld_pipe[1] is the open write end of the
\* self-pipe of a uv_spawn_sync call that is in flight
C20_HandlerWritesToLiveSelfPipe ==
  (sigchld.pending /\ sigchld.handler = "SyncCHLDHandler") =>
    /\ SyncInFlight
    /\ sigchld_pipe[2] \in Fds
    /\ fdtab[sigchld_pipe[2]] = File(sync.o, "sigchld", "w")

=============================================================================
